---- MODULE Spec2Model ----
(***************************************************************************)
(* Model of src/app/api/extensions/extension_api.py: the ExtensionAPI      *)
(* class that installs, uninstalls, toggles and scans extension            *)
(* directories under <sd_path>/extensions, with backups under              *)
(* <sd_path>/backups/extensions and downloads under <sd_path>/temp/...     *)
(*                                                                         *)
(* The filesystem is the only state of the program.  A directory tree is   *)
(* a function from entry names to data values; the extensions root and     *)
(* the backup root are functions from directory names to trees.  Every     *)
(* handler is one action; the blocking calls it makes (copytree, rmtree,   *)
(* clone_from, extractall, rename, subprocess.run) may fail, and the       *)
(* outcome of each is chosen by the environment.                           *)
(***************************************************************************)
EXTENDS Integers, Sequences, FiniteSets, TLC

VARIABLES
    extensions,   \* extensions root: directory name -> tree
    has_root,     \* whether <sd_path>/extensions exists at all
    backups,      \* backup root: backup_id -> tree
    temp,         \* temp directory: set of file names
    now,          \* wall clock, in ticks
    ncalls,       \* number of calls made so far
    call,         \* history: the last call and its arguments
    result,       \* history: what the last call returned
    pre,          \* history: the filesystem before the last call
    steps,        \* history: the filesystem steps the last call executed, in order
    cloned,       \* history: the id the call before the last one installed
                  \* successfully by git_clone, or ""
    tasks,        \* the calls in progress when calls overlap: per task its
                  \* call, its position and its local variables
    toggled_from  \* history: when the call before the last one was a disable
                  \* toggle of an existing unprefixed id X with no disabled_X,
                  \* X and the extensions root before it; else id ""

vars == <<extensions, has_root, backups, temp, now, ncalls, call, result, pre, steps,
          cloned, toggled_from, tasks>>

----------------------------------------------------------------------------
(* Bounds *)

MaxCalls == 2
MaxNow == 2
TicksPerSecond == 2

----------------------------------------------------------------------------
(* Program constants *)

DisabledPrefixLen == 9
ScriptTimeout == 300
ShaLen == 8

DisabledPrefix == "disabled_"

----------------------------------------------------------------------------
(* Trees, names and inputs *)

\* Contents of the remote repository at its default branch and at tag v1,
\* of the downloadable archive, and of the directories present at start.
TreeHead == ("install.py" :> 1) @@ (".git" :> 1)
TreeV1   == ("README.md" :> 2) @@ (".git" :> 2)
TreeZip  == ("scripts" :> 3) @@ ("README.md" :> 3)
TreeOld  == ("README.md" :> 0) @@ ("user.cfg" :> 0)
TreeBar  == ("__init__.py" :> 0) @@ (".git" :> 7)
EmptyTree == <<>>

Ids      == {"foo", "disabled_foo"}
Methods  == {"git_clone", "download_zip", "svn"}
Versions == {"latest", "v1"}

Bystanders == ("bar" :> TreeBar) @@ (".git" :> TreeOld) @@ ("empty" :> EmptyTree)

Restrict(f, S) == [x \in S |-> f[x]]
Without(f, k)  == [x \in DOMAIN f \ {k} |-> f[x]]
With(f, k, v)  == [x \in DOMAIN f \cup {k} |-> IF x = k THEN v ELSE f[x]]

\* str.startswith
startswith(s, p) == Len(s) >= Len(p) /\ SubSeq(s, 1, Len(p)) = p

\* datetime.now().strftime("%Y%m%d_%H%M%S"): the clock cut to whole seconds
strftime(t) == ToString(t \div TicksPerSecond)

\* datetime.now().timestamp(): the clock at full resolution
timestamp(t) == ToString(t)

NoException == [cls |-> "None", detail |-> ""]

\* The classes the blocking calls raise; all derive from Exception.
ExceptionSubclasses ==
    {"HTTPException", "OSError", "FileExistsError", "FileNotFoundError",
     "PermissionError", "Error", "GitCommandError", "RequestException",
     "BadZipFile", "TimeoutExpired", "CalledProcessError"}

\* Variant: the handlers catch HTTPException only.
except_HTTPException(cls) == cls = "HTTPException"

\* `except Exception`
except_Exception(cls) == cls \in ExceptionSubclasses

\* The filesystem as one value.
FS == [ext |-> extensions, root |-> has_root, bak |-> backups, tmp |-> temp]

\* os.path.exists(os.path.join(self.extensions_path, name))
path_exists(fs, name) == fs.root /\ name \in DOMAIN fs.ext

\* A context threads the filesystem, the pending exception, the executed
\* steps, the last backup_id and an early return through the statements of
\* a handler.
Start == [fs |-> FS, exc |-> NoException, steps |-> <<>>, backup_id |-> "",
          early |-> ""]

Step(m, op, name, ok) == Append(m.steps, [op |-> op, name |-> name, ok |-> ok])

Raise(m, cls, detail) == [m EXCEPT !.exc = [cls |-> cls, detail |-> detail]]

\* Sequencing: the next statement runs only when no exception is pending.
Then(S, F(_)) == UNION { IF m.exc.cls = "None" THEN F(m) ELSE {m} : m \in S }


\* try: ... except Exception as e: raise HTTPException(status_code=500, detail=...)
Wrap(S, detail) ==
    { IF m.exc.cls # "None" /\ except_Exception(m.exc.cls)
      THEN Raise(m, "HTTPException", detail)
      ELSE m : m \in S }

----------------------------------------------------------------------------
(* Blocking library calls, each with the outcomes the environment can give *)

\* Variant: copytree(..., dirs_exist_ok=True) writes over an existing entry.
copytree_overwrite(m, tree, backup_id) ==
    { [m EXCEPT !.fs.bak = With(@, backup_id, tree),
                !.steps = Step(m, "copytree", backup_id, TRUE)] }

\* Variant: the copy reports success without copying anything.
copytree_skip(m, tree, backup_id) ==
    { [m EXCEPT !.steps = Step(m, "copytree", backup_id, TRUE)] }

\* shutil.copytree(source_path, backup_path): fails up front when the
\* destination exists; otherwise creates it and copies entry by entry, and a
\* failure on the way leaves what was copied so far.
copytree(m, tree, backup_id) ==
    IF backup_id \in DOMAIN m.fs.bak
    THEN { [Raise(m, "FileExistsError", backup_id)
              EXCEPT !.steps = Step(m, "copytree", backup_id, FALSE)] }
    ELSE { [m EXCEPT !.fs.bak = With(@, backup_id, tree),
                     !.steps = Step(m, "copytree", backup_id, TRUE)] }
         \cup
         { [Raise(m, "OSError", "No space left on device")
              EXCEPT !.steps = Step(m, "copytree", backup_id, FALSE)] }
         \cup
         { [Raise(m, "Error", "copytree")
              EXCEPT !.fs.bak = With(@, backup_id, Restrict(tree, S)),
                     !.steps = Step(m, "copytree", backup_id, FALSE)]
           : S \in (SUBSET DOMAIN tree) \ {DOMAIN tree} }

\* shutil.rmtree(path): raises at the first entry it cannot delete, leaving
\* the directory with the entries not yet deleted.
rmtree(m, name) ==
    IF ~ path_exists(m.fs, name)
    THEN { [Raise(m, "FileNotFoundError", name)
              EXCEPT !.steps = Step(m, "rmtree", name, FALSE)] }
    ELSE
    LET tree == m.fs.ext[name] IN
    { [m EXCEPT !.fs.ext = Without(@, name),
                !.steps = Step(m, "rmtree", name, TRUE)] }
    \cup
    { [Raise(m, "PermissionError", "rmtree")
         EXCEPT !.fs.ext = With(@, name, Restrict(tree, S)),
                !.steps = Step(m, "rmtree", name, FALSE)]
      : S \in SUBSET DOMAIN tree }

\* git.Repo.clone_from(repo_url, target_path): creates the target (and the
\* missing parents) with the default branch checked out, or fails and
\* leaves nothing behind; refuses a target that exists and is not empty.
clone_from(m, target_path) ==
    IF path_exists(m.fs, target_path) /\ m.fs.ext[target_path] # EmptyTree
    THEN { [Raise(m, "GitCommandError", "destination path already exists")
              EXCEPT !.steps = Step(m, "clone_from", target_path, FALSE)] }
    ELSE { [m EXCEPT !.fs.ext = With(@, target_path, TreeHead),
                     !.fs.root = TRUE,
                     !.steps = Step(m, "clone_from", target_path, TRUE)] }
         \cup
         { [Raise(m, "GitCommandError", "clone")
              EXCEPT !.steps = Step(m, "clone_from", target_path, FALSE)] }

\* try: repo.git.checkout(version) except: print(...)
checkout(m, target_path, version) ==
    { [m EXCEPT !.steps = Step(m, "checkout", target_path, FALSE)] }
    \cup
    IF version = "v1"
    THEN { [m EXCEPT !.fs.ext = With(@, target_path, TreeV1),
                     !.steps = Step(m, "checkout", target_path, TRUE)] }
    ELSE {}

\* Variant: the rename replaces whatever holds the new name.
rename_replace(m, src, dst) ==
    IF ~ path_exists(m.fs, src)
    THEN { [Raise(m, "FileNotFoundError", src)
              EXCEPT !.steps = Step(m, "rename", src, FALSE)] }
    ELSE { [m EXCEPT !.fs.ext = With(Without(@, src), dst, m.fs.ext[src]),
                     !.steps = Step(m, "rename", src, TRUE)] }

\* os.rename(current_path, new_path) between directories of the root.  Onto
\* an existing directory it fails on Windows; on POSIX it replaces an empty
\* directory and fails on one that is not empty.
rename(m, src, dst) ==
    IF ~ path_exists(m.fs, src)
    THEN { [Raise(m, "FileNotFoundError", src)
              EXCEPT !.steps = Step(m, "rename", src, FALSE)] }
    ELSE
    { [Raise(m, "PermissionError", src)
         EXCEPT !.steps = Step(m, "rename", src, FALSE)] }
    \cup
    (IF path_exists(m.fs, dst)
     THEN { [Raise(m, "FileExistsError", dst)
               EXCEPT !.steps = Step(m, "rename", src, FALSE)] }
     ELSE {})
    \cup
    (IF ~ path_exists(m.fs, dst) \/ m.fs.ext[dst] = EmptyTree
     THEN { [m EXCEPT !.fs.ext = With(Without(@, src), dst, m.fs.ext[src]),
                      !.steps = Step(m, "rename", src, TRUE)] }
     ELSE {})

\* Variant: the target is emptied before the archive is extracted.
download_extract_remove_clean(m, target_path) ==
    LET temp_file == "download_" \o timestamp(now) \o ".zip"
        extracted(S) == With(m.fs.ext, target_path, Restrict(TreeZip, S))
    IN
    { [Raise(m, "RequestException", "get")
         EXCEPT !.steps = Step(m, "get", target_path, FALSE)] }
    \cup
    { [Raise(m, "OSError", "extractall")
         EXCEPT !.fs.tmp = @ \cup {temp_file},
                !.fs.ext = extracted(S),
                !.fs.root = TRUE,
                !.steps = Step(m, "extractall", target_path, FALSE)]
      : S \in (SUBSET DOMAIN TreeZip) \ {DOMAIN TreeZip} }
    \cup
    { [m EXCEPT !.fs.tmp = @ \ {temp_file},
                !.fs.ext = extracted(DOMAIN TreeZip),
                !.fs.root = TRUE,
                !.steps = Step(m, "extractall", target_path, TRUE)] }

\* requests.get + raise_for_status, the write of the temp file,
\* ZipFile(...).extractall(target_path) and os.remove(temp_file).  extractall
\* writes the archive's entries over the target, creating it when missing.
download_extract_remove(m, target_path) ==
    LET temp_file == "download_" \o timestamp(now) \o ".zip"
        old == IF path_exists(m.fs, target_path) THEN m.fs.ext[target_path] ELSE EmptyTree
        extracted(S) == With(m.fs.ext, target_path, Restrict(TreeZip, S) @@ old)
    IN
    \* the request fails: nothing was written
    { [Raise(m, "RequestException", "get")
         EXCEPT !.steps = Step(m, "get", target_path, FALSE)] }
    \cup
    \* the write of the temp file fails, or the file is no archive
    { [Raise(m, cls, "temp file")
         EXCEPT !.fs.tmp = @ \cup {temp_file},
                !.steps = Step(m, "write", target_path, FALSE)]
      : cls \in {"OSError", "BadZipFile"} }
    \cup
    \* the extraction fails after the entries S
    { [Raise(m, "OSError", "extractall")
         EXCEPT !.fs.tmp = @ \cup {temp_file},
                !.fs.ext = IF S = {} THEN @ ELSE extracted(S),
                !.fs.root = IF S = {} THEN @ ELSE TRUE,
                !.steps = Step(m, "extractall", target_path, FALSE)]
      : S \in (SUBSET DOMAIN TreeZip) \ {DOMAIN TreeZip} }
    \cup
    \* everything is extracted; the temp file is deleted, or cannot be
    { [m EXCEPT !.fs.tmp = @ \ {temp_file},
                !.fs.ext = extracted(DOMAIN TreeZip),
                !.fs.root = TRUE,
                !.steps = Step(m, "extractall", target_path, TRUE)],
      [Raise(m, "PermissionError", "remove")
         EXCEPT !.fs.tmp = @ \cup {temp_file},
                !.fs.ext = extracted(DOMAIN TreeZip),
                !.fs.root = TRUE,
                !.steps = Step(m, "extractall", target_path, TRUE)] }

\* subprocess.run(["python", install_script], cwd=..., check=True, timeout=300):
\* the launch fails (OSError), the script outlives the timeout, or it exits
\* with a status.
subprocess_run(m, extension_id) ==
    { [Raise(m, "FileNotFoundError", "python")
         EXCEPT !.steps = Step(m, "run", extension_id, FALSE)] }
    \cup
    { [(IF duration > ScriptTimeout THEN Raise(m, "TimeoutExpired", "install.py")
        ELSE IF status # 0 THEN Raise(m, "CalledProcessError", "install.py")
        ELSE m)
         EXCEPT !.steps = Step(m, "run", extension_id,
                               duration <= ScriptTimeout /\ status = 0)]
      : duration \in {ScriptTimeout, ScriptTimeout + 1}, status \in {0, 1} }

----------------------------------------------------------------------------
(* The private methods of ExtensionAPI *)

\* Variant: the older backups of the same extension and reason are deleted
\* before the new copy is made.
_create_backup_rotate(m, extension_id, reason) ==
    LET backup_id == extension_id \o "_" \o reason \o "_" \o strftime(now)
        kept == { b \in DOMAIN m.fs.bak :
                    ~ startswith(b, extension_id \o "_" \o reason \o "_") }
        m0 == [m EXCEPT !.fs.bak = Restrict(@, kept)]
        copied == IF path_exists(m.fs, extension_id)
                  THEN copytree(m0, m.fs.ext[extension_id], backup_id)
                  ELSE {m}
    IN { IF c.exc.cls = "None" THEN [c EXCEPT !.backup_id = backup_id] ELSE c
         : c \in copied }

\* Variant: the backup identifier is returned without any copy being made.
_create_backup_no_copy(m, extension_id, reason) ==
    { [m EXCEPT !.backup_id = extension_id \o "_" \o reason \o "_" \o strftime(now)] }

\* Variant: a failed copy is swallowed and the identifier returned all the same.
_create_backup_swallow(m, extension_id, reason) ==
    LET backup_id == extension_id \o "_" \o reason \o "_" \o strftime(now)
        copied == IF path_exists(m.fs, extension_id)
                  THEN copytree(m, m.fs.ext[extension_id], backup_id)
                  ELSE {m}
    IN { [c EXCEPT !.exc = NoException, !.backup_id = backup_id] : c \in copied }

\* _create_backup(extension_id, reason) -> backup_id
_create_backup(m, extension_id, reason) ==
    LET backup_id == extension_id \o "_" \o reason \o "_" \o strftime(now)
        copied == IF path_exists(m.fs, extension_id)
                  THEN copytree(m, m.fs.ext[extension_id], backup_id)
                  ELSE {m}
    IN { IF c.exc.cls = "None" THEN [c EXCEPT !.backup_id = backup_id] ELSE c
         : c \in copied }

\* _git_clone_extension(repo_url, target_path, version)
_git_clone_extension(m, target_path, version) ==
    Wrap(Then(IF path_exists(m.fs, target_path) THEN rmtree(m, target_path) ELSE {m},
              LAMBDA m1 :
         Then(clone_from(m1, target_path),
              LAMBDA m2 :
                IF version # "" /\ version # "latest"
                THEN checkout(m2, target_path, version)
                ELSE {m2})),
         "Git clone failed")

\* _download_and_extract(download_url, target_path)
_download_and_extract(m, target_path) ==
    Wrap(download_extract_remove(m, target_path), "Download failed")

\* _install_dependencies(dependencies): prints, changes nothing
_install_dependencies(m) == {m}

\* _configure_extension(extension_id, extension_path)
_configure_extension(m, extension_id) ==
    IF path_exists(m.fs, extension_id) /\ "install.py" \in DOMAIN m.fs.ext[extension_id]
    THEN { IF c.exc.cls \in {"TimeoutExpired", "CalledProcessError"}
           THEN [c EXCEPT !.exc = NoException]
           ELSE c
           : c \in subprocess_run(m, extension_id) }
    ELSE {m}


----------------------------------------------------------------------------
(* Results *)

NoEntries == {}

\* The dict a handler returns.
Returned(success, extension_id, message, backup_id, entries) ==
    [returned |-> TRUE, success |-> success, extensionId |-> extension_id,
     message |-> message, backupId |-> backup_id, entries |-> entries]

\* No dict: the exception leaves the handler.
Escaped(extension_id, exc) ==
    [returned |-> FALSE, success |-> FALSE, extensionId |-> extension_id,
     message |-> exc.cls, backupId |-> "", entries |-> NoEntries]

\* str(e)
str(exc) == IF exc.detail # "" THEN exc.detail ELSE exc.cls

\* except Exception as e: return {"success": False, ..., "message": f"{prefix}: {str(e)}"}
except_return(m, extension_id, prefix) ==
    IF except_Exception(m.exc.cls)
    THEN Returned(FALSE, extension_id, prefix \o ": " \o str(m.exc), "", NoEntries)
    ELSE Escaped(extension_id, m.exc)

NoCall == [op |-> "none", extensionId |-> "", installMethod |-> "", version |-> "",
           enabled |-> FALSE]

NotToggled == [id |-> "", ext |-> <<>>]

\* The requests that can be in progress at the same time.
Tasks == {"A", "B"}

\* A task before its request arrives.  seen is the target's contents when the
\* handler's existence check passed; interfered tells that another task took
\* a step after this one's first step and before its return.
IdleTask == [call |-> NoCall, pc |-> "idle", exc |-> NoException, backup_id |-> "",
             steps |-> <<>>, seen |-> EmptyTree, interfered |-> FALSE,
             result |-> Returned(TRUE, "", "", "", NoEntries)]

\* A handler ends: the filesystem is what its steps left, and the history
\* variables record the call.
Return(c, res, m) ==
    /\ extensions' = m.fs.ext
    /\ has_root' = m.fs.root
    /\ backups' = m.fs.bak
    /\ temp' = m.fs.tmp
    /\ call' = c
    /\ result' = res
    /\ steps' = m.steps
    /\ pre' = FS
    /\ ncalls' = ncalls + 1
    /\ cloned' = IF call.op = "install" /\ call.installMethod = "git_clone"
                    /\ result.success
                 THEN call.extensionId ELSE ""
    /\ toggled_from' =
         IF /\ call.op = "toggle" /\ ~ call.enabled
            /\ ~ startswith(call.extensionId, DisabledPrefix)
            /\ path_exists(pre, call.extensionId)
            /\ ~ path_exists(pre, DisabledPrefix \o call.extensionId)
         THEN [id |-> call.extensionId, ext |-> pre.ext]
         ELSE NotToggled
    /\ UNCHANGED <<now, tasks>>

----------------------------------------------------------------------------
(* install_extension *)

\* the try block of install_extension
install_try(request, metadata) ==
    LET id == request.extensionId IN
    Then(IF path_exists(FS, id)
         THEN _create_backup(Start, id, "before_install")
         ELSE {Start},
         LAMBDA m1 :
    Then(IF metadata.installMethod = "git_clone"
         THEN _git_clone_extension(m1, id, request.version)
         ELSE IF metadata.installMethod = "download_zip"
         THEN _download_and_extract(m1, id)
         ELSE {Raise(m1, "HTTPException", "Unsupported install method")},
         LAMBDA m2 :
    Then(_install_dependencies(m2),
         LAMBDA m3 : _configure_extension(m3, id))))

install_return(m, request) ==
    IF m.exc.cls = "None"
    THEN Returned(TRUE, request.extensionId, "Successfully installed", "", NoEntries)
    ELSE except_return(m, request.extensionId, "Installation failed")

install_extension(request, metadata) ==
    /\ ncalls < MaxCalls
    /\ \E m \in install_try(request, metadata) :
         Return([NoCall EXCEPT !.op = "install",
                               !.extensionId = request.extensionId,
                               !.installMethod = metadata.installMethod,
                               !.version = request.version],
                install_return(m, request), m)

----------------------------------------------------------------------------
(* uninstall_extension *)

\* Variant: no existence check before the backup and the delete.
uninstall_try_no_check(extension_id) ==
    Then(_create_backup(Start, extension_id, "before_uninstall"),
         LAMBDA m1 : rmtree(m1, extension_id))

\* Variant: the directory is deleted before the backup is taken.
uninstall_try_delete_first(extension_id) ==
    IF ~ path_exists(FS, extension_id)
    THEN { [Start EXCEPT !.early = "Extension not found"] }
    ELSE Then(rmtree(Start, extension_id),
              LAMBDA m1 : _create_backup(m1, extension_id, "before_uninstall"))

\* the try block of uninstall_extension
uninstall_try(extension_id) ==
    IF ~ path_exists(FS, extension_id)
    THEN { [Start EXCEPT !.early = "Extension not found"] }
    ELSE Then(_create_backup(Start, extension_id, "before_uninstall"),
              LAMBDA m1 : rmtree(m1, extension_id))

uninstall_return(m, extension_id) ==
    IF m.early # ""
    THEN Returned(FALSE, extension_id, m.early, "", NoEntries)
    ELSE IF m.exc.cls = "None"
    THEN Returned(TRUE, extension_id, "Extension uninstalled successfully",
                  m.backup_id, NoEntries)
    ELSE except_return(m, extension_id, "Uninstallation failed")

uninstall_extension(extension_id) ==
    /\ ncalls < MaxCalls
    /\ \E m \in uninstall_try(extension_id) :
         Return([NoCall EXCEPT !.op = "uninstall", !.extensionId = extension_id],
                uninstall_return(m, extension_id), m)

----------------------------------------------------------------------------
(* toggle_extension *)

\* Variant: a backup is taken before the rename.
toggle_try_backup(extension_id, enabled) ==
    Then(_create_backup(Start, extension_id, "before_toggle"),
         LAMBDA m1 :
           IF enabled
           THEN IF startswith(extension_id, DisabledPrefix)
                THEN rename(m1, extension_id,
                            SubSeq(extension_id, DisabledPrefixLen + 1, Len(extension_id)))
                ELSE {m1}
           ELSE IF ~ startswith(extension_id, DisabledPrefix)
                THEN rename(m1, extension_id, DisabledPrefix \o extension_id)
                ELSE {m1})

\* Variant: the prefix is stripped one character short.
toggle_try_short_strip(extension_id, enabled) ==
    IF enabled
    THEN IF startswith(extension_id, DisabledPrefix)
         THEN rename(Start, extension_id,
                     SubSeq(extension_id, DisabledPrefixLen, Len(extension_id)))
         ELSE {Start}
    ELSE IF ~ startswith(extension_id, DisabledPrefix)
         THEN rename(Start, extension_id, DisabledPrefix \o extension_id)
         ELSE {Start}

\* the try block of toggle_extension
toggle_try(extension_id, enabled) ==
    IF enabled
    THEN IF startswith(extension_id, DisabledPrefix)
         THEN rename(Start, extension_id,
                     SubSeq(extension_id, DisabledPrefixLen + 1, Len(extension_id)))
         ELSE {Start}
    ELSE IF ~ startswith(extension_id, DisabledPrefix)
         THEN rename(Start, extension_id, DisabledPrefix \o extension_id)
         ELSE {Start}

toggle_return(m, extension_id, enabled) ==
    IF m.exc.cls = "None"
    THEN Returned(TRUE, extension_id,
                  IF enabled THEN "Extension enabled" ELSE "Extension disabled",
                  "", NoEntries)
    ELSE except_return(m, extension_id, "Toggle failed")

toggle_extension(extension_id, enabled) ==
    /\ ncalls < MaxCalls
    /\ \E m \in toggle_try(extension_id, enabled) :
         Return([NoCall EXCEPT !.op = "toggle", !.extensionId = extension_id,
                               !.enabled = enabled],
                toggle_return(m, extension_id, enabled), m)

----------------------------------------------------------------------------
(* _scan_installed_extensions *)

info_files == {"install.py", "scripts", "__init__.py", "README.md"}

has_valid_structure(tree) == \E info_file \in info_files : info_file \in DOMAIN tree

\* commits[0].hexsha of the checkout whose .git entry is commit c
hexsha(c) == ToString(c) \o "0a1b2c3d4e5f"

\* version = commits[0].hexsha[:8] when the directory is a checkout and the
\* repository can be read; the bare except leaves "unknown" otherwise.
git_version(tree, git_ok) ==
    IF ".git" \in DOMAIN tree /\ git_ok
    THEN SubSeq(hexsha(tree[".git"]), 1, ShaLen)
    ELSE "unknown"

\* Variant: the marker test is missing.
_parse_extension_info_any(ext_id, tree, git_ok, getctime_ok) ==
    IF ~ getctime_ok THEN {}
    ELSE { [id |-> ext_id, version |-> git_version(tree, git_ok),
            isEnabled |-> ~ startswith(ext_id, DisabledPrefix)] }

\* _parse_extension_info(ext_id, ext_path): zero or one entry.  Reading the
\* repository may raise, which the inner except swallows; os.path.getctime
\* may raise, and the outer except then returns None.
_parse_extension_info(ext_id, tree, git_ok, getctime_ok) ==
    IF ~ has_valid_structure(tree) THEN {}
    ELSE IF ~ getctime_ok THEN {}
    ELSE { [id |-> ext_id, version |-> git_version(tree, git_ok),
            isEnabled |-> ~ startswith(ext_id, DisabledPrefix)] }

\* Variant: a failing directory ends the loop, and nothing is returned.
scan_entries_abort(fs, corrupt, unreadable) ==
    IF ~ fs.root \/ corrupt # {} \/ unreadable # {} THEN {}
    ELSE UNION { _parse_extension_info(item, fs.ext[item], TRUE, TRUE)
                 : item \in { d \in DOMAIN fs.ext : ~ startswith(d, ".") } }

\* The entries scan returns when os.listdir succeeds, the repository of the
\* directories in corrupt cannot be read and os.path.getctime fails for the
\* directories in unreadable.
scan_entries(fs, corrupt, unreadable) ==
    IF ~ fs.root THEN {}
    ELSE UNION { _parse_extension_info(item, fs.ext[item], item \notin corrupt,
                                       item \notin unreadable)
                 : item \in { d \in DOMAIN fs.ext : ~ startswith(d, ".") } }

\* The directories _parse_extension_info inspects beyond the marker test,
\* and those among them it opens as a repository.
Inspected(fs) ==
    { d \in DOMAIN fs.ext : ~ startswith(d, ".") /\ has_valid_structure(fs.ext[d]) }

Checkouts(fs) == { d \in Inspected(fs) : ".git" \in DOMAIN fs.ext[d] }

RECURSIVE FailureSteps(_, _)
\* One failed step op per directory of S.
FailureSteps(op, S) ==
    IF S = {} THEN <<>>
    ELSE LET d == CHOOSE x \in S : TRUE
         IN <<[op |-> op, name |-> d, ok |-> FALSE]>> \o FailureSteps(op, S \ {d})

_scan_installed_extensions ==
    /\ ncalls < MaxCalls
    /\ \E listdir_ok \in BOOLEAN :
       \E corrupt \in SUBSET Checkouts(FS) :
       \E unreadable \in SUBSET Inspected(FS) :
         /\ listdir_ok \/ (has_root /\ corrupt = {} /\ unreadable = {})
         /\ Return([NoCall EXCEPT !.op = "scan"],
                   Returned(TRUE, "", "", "",
                            IF listdir_ok
                            THEN scan_entries(FS, corrupt, unreadable)
                            ELSE NoEntries),
                   [Start EXCEPT !.steps =
                      IF ~ has_root THEN <<>>
                      ELSE <<[op |-> "listdir", name |-> "", ok |-> listdir_ok]>>
                           \o FailureSteps("git", corrupt)
                           \o FailureSteps("getctime", unreadable)])

----------------------------------------------------------------------------
(* The clock, and the specification *)

Tick ==
    /\ now < MaxNow
    /\ now' = now + 1
    /\ UNCHANGED <<extensions, has_root, backups, temp, ncalls, call, result,
                   pre, steps, cloned, toggled_from, tasks>>

InitialRoots ==
    { [root |-> FALSE, ext |-> <<>>],
      [root |-> TRUE, ext |-> <<>>],
      [root |-> TRUE, ext |-> ("foo" :> TreeOld) @@ Bystanders],
      [root |-> TRUE, ext |-> ("disabled_foo" :> TreeOld) @@ Bystanders],
      [root |-> TRUE, ext |-> ("disabled_foo" :> EmptyTree)] }

Init ==
    /\ \E r \in InitialRoots : extensions = r.ext /\ has_root = r.root
    /\ backups = <<>>
    /\ temp = {}
    /\ now = 0
    /\ ncalls = 0
    /\ call = NoCall
    /\ result = Returned(TRUE, "", "", "", NoEntries)
    /\ pre = [ext |-> extensions, root |-> has_root, bak |-> backups, tmp |-> temp]
    /\ steps = <<>>
    /\ cloned = ""
    /\ toggled_from = NotToggled
    /\ tasks = [t \in Tasks |-> IdleTask]

Next ==
    \/ \E id \in Ids, method \in Methods :
       \* request.version is read by _git_clone_extension only
       \E version \in IF method = "git_clone" THEN Versions ELSE {"latest"} :
         install_extension([extensionId |-> id, version |-> version],
                           [installMethod |-> method])
    \/ \E id \in Ids : uninstall_extension(id)
    \/ \E id \in Ids, enabled \in BOOLEAN : toggle_extension(id, enabled)
    \/ _scan_installed_extensions
    \/ Tick

Spec == Init /\ [][Next]_vars


----------------------------------------------------------------------------
(* Overlapping calls: the handlers statement by statement *)

\* The positions of a handler are its existence checks and blocking calls.
\* The position after _create_backup, or after the check that skips it.
after_backup(c) ==
    IF c.op = "uninstall" THEN "rmtree"
    ELSE IF c.installMethod = "git_clone" THEN "clone_exists"
    ELSE IF c.installMethod = "download_zip" THEN "download"
    ELSE "unsupported"

\* The statement's outcomes, each with the position that follows: a pending
\* exception goes to the handler's except clause.
Out(S, pc) == { [m |-> x, pc |-> IF x.exc.cls = "None" THEN pc ELSE "return"] : x \in S }

\* One statement of the handler of call c at position pc, run on context m.
Advance(c, pc, m) ==
    LET id == c.extensionId
        reason == IF c.op = "install" THEN "before_install" ELSE "before_uninstall"
        checked == [m EXCEPT !.steps = Step(m, pc, id, path_exists(m.fs, id))]
    IN
    CASE pc = "exists" ->
           IF path_exists(m.fs, id) THEN Out({checked}, "backup_exists")
           ELSE IF c.op = "uninstall"
           THEN Out({[checked EXCEPT !.early = "Extension not found"]}, "return")
           ELSE Out({checked}, after_backup(c))
      [] pc = "backup_exists" ->
           Out({[checked EXCEPT !.backup_id = id \o "_" \o reason \o "_" \o strftime(now)]},
               IF path_exists(m.fs, id) THEN "copytree" ELSE after_backup(c))
      [] pc = "copytree" ->
           Out(IF path_exists(m.fs, id)
               THEN copytree(m, m.fs.ext[id], m.backup_id)
               ELSE { [Raise(m, "FileNotFoundError", id)
                         EXCEPT !.steps = Step(m, "copytree", m.backup_id, FALSE)] },
               after_backup(c))
      [] pc = "rmtree" -> Out(rmtree(m, id), "return")
      [] pc = "clone_exists" ->
           Out({checked}, IF path_exists(m.fs, id) THEN "clone_rmtree" ELSE "clone_from")
      [] pc = "clone_rmtree" ->
           Out(Wrap(rmtree(m, id), "Git clone failed"), "clone_from")
      [] pc = "clone_from" ->
           Out(Wrap(clone_from(m, id), "Git clone failed"),
               IF c.version # "" /\ c.version # "latest" THEN "checkout" ELSE "configure")
      [] pc = "checkout" ->
           Out(Wrap(checkout(m, id, c.version), "Git clone failed"), "configure")
      [] pc = "download" -> Out(_download_and_extract(m, id), "configure")
      [] pc = "unsupported" ->
           Out({Raise(m, "HTTPException", "Unsupported install method")}, "return")
      [] pc = "configure" ->
           Out(Then(_install_dependencies(m), LAMBDA m1 : _configure_extension(m1, id)),
               "return")
      [] pc = "rename" ->
           Out({ [x EXCEPT !.steps = m.steps \o @] : x \in toggle_try(id, c.enabled) },
               "return")

\* The dict the handler of call c returns from context m.
handler_return(c, m) ==
    IF c.op = "install"
    THEN install_return(m, [extensionId |-> c.extensionId, version |-> c.version])
    ELSE IF c.op = "uninstall" THEN uninstall_return(m, c.extensionId)
    ELSE toggle_return(m, c.extensionId, c.enabled)

Mid(t) == tasks[t].pc \notin {"idle", "done"}

\* A request arrives and its handler is entered.
Begin(t, c) ==
    /\ tasks[t].pc = "idle"
    /\ tasks' = [tasks EXCEPT ![t] = [IdleTask EXCEPT !.call = c,
                                        !.pc = IF c.op = "toggle" THEN "rename" ELSE "exists"]]
    /\ UNCHANGED <<extensions, has_root, backups, temp, now, ncalls, call, result,
                   pre, steps, cloned, toggled_from>>

\* Task t runs its next statement on the filesystem as it is now.
TaskStep(t) ==
    LET tk == tasks[t]
        m0 == [fs |-> FS, exc |-> NoException, steps |-> tk.steps,
               backup_id |-> tk.backup_id, early |-> ""]
    IN
    /\ Mid(t)
    /\ \E o \in Advance(tk.call, tk.pc, m0) :
         /\ extensions' = o.m.fs.ext
         /\ has_root' = o.m.fs.root
         /\ backups' = o.m.fs.bak
         /\ temp' = o.m.fs.tmp
         /\ tasks' =
              [u \in Tasks |->
                 IF u = t
                 THEN [tk EXCEPT
                         !.pc = IF o.pc = "return" THEN "done" ELSE o.pc,
                         !.exc = o.m.exc,
                         !.backup_id = o.m.backup_id,
                         !.steps = o.m.steps,
                         !.seen = IF tk.pc = "exists" /\ path_exists(FS, tk.call.extensionId)
                                  THEN extensions[tk.call.extensionId] ELSE @,
                         !.result = IF o.pc = "return"
                                    THEN handler_return(tk.call, o.m) ELSE @]
                 ELSE IF Mid(u) /\ tasks[u].steps # <<>>
                 THEN [tasks[u] EXCEPT !.interfered = TRUE]
                 ELSE tasks[u]]
    /\ UNCHANGED <<now, ncalls, call, result, pre, steps, cloned, toggled_from>>

\* The calls a request can make.
Calls ==
    { [NoCall EXCEPT !.op = "install", !.extensionId = id, !.installMethod = mv[1],
                     !.version = mv[2]]
      : id \in Ids,
        mv \in { <<method, version>> \in Methods \X Versions :
                   method = "git_clone" \/ version = "latest" } }
    \cup { [NoCall EXCEPT !.op = "uninstall", !.extensionId = id] : id \in Ids }
    \cup { [NoCall EXCEPT !.op = "toggle", !.extensionId = id, !.enabled = enabled]
           : id \in Ids, enabled \in BOOLEAN }

\* Handlers in threads or worker processes: any task can take the next step.
ThreadsNext ==
    \/ \E t \in Tasks, c \in Calls : Begin(t, c)
    \/ \E t \in Tasks : TaskStep(t)

SpecThreads == Init /\ [][ThreadsNext]_vars

\* Variant: the copy and the delete are awaited in a worker thread.
SuspensionPoints_to_thread == {"copytree", "rmtree", "clone_rmtree"}

\* The positions at which a coroutine hands control back to the event loop:
\* every await of the handlers is on a coroutine of this class that contains
\* blocking calls only, so there is none.
SuspensionPoints == {}

\* Task t can run on the event loop: no other coroutine is in progress,
\* unless it is suspended.
HoldsLoop(t) == \A u \in Tasks \ {t} : Mid(u) => tasks[u].pc \in SuspensionPoints

\* Coroutines on one asyncio event loop.
LoopNext ==
    \/ \E t \in Tasks, c \in Calls : HoldsLoop(t) /\ Begin(t, c)
    \/ \E t \in Tasks : HoldsLoop(t) /\ TaskStep(t)

SpecLoop == Init /\ [][LoopNext]_vars

----------------------------------------------------------------------------
(* Vocabulary of the properties *)

\* The directory name without the disabled_ prefix, and with it.
Unprefixed(id) ==
    IF startswith(id, DisabledPrefix)
    THEN SubSeq(id, DisabledPrefixLen + 1, Len(id))
    ELSE id

Prefixed(id) == DisabledPrefix \o Unprefixed(id)

\* Whether the target of the last call existed before the call.
ExistedBefore(id) == pre.root /\ id \in DOMAIN pre.ext

ExistsNow(id) == has_root /\ id \in DOMAIN extensions

\* The last call took the filesystem step op, with outcome ok.
Took(op, ok) == \E i \in DOMAIN steps : steps[i].op = op /\ steps[i].ok = ok

\* The backup entries the last call created, with the given reason tag.
NewBackups(id, reason) ==
    { b \in DOMAIN backups \ DOMAIN pre.bak :
        startswith(b, id \o "_" \o reason \o "_") }

RootUnchanged == extensions = pre.ext /\ has_root = pre.root

----------------------------------------------------------------------------
(* Properties *)

\* C1: the extensions root never holds both a directory X and a directory
\* disabled_X for the same identifier X.
C1_OneDirectoryPerIdentifier ==
    \A d \in DOMAIN extensions :
        ~ (startswith(d, DisabledPrefix) /\ Unprefixed(d) \in DOMAIN extensions)

\* C2: whenever uninstall or a git_clone install runs rmtree on the extension
\* directory, a copytree of the same call succeeded before it, and the new
\* backup entry, tagged before_uninstall or before_install, holds the
\* directory's contents from before the call; it still does when the call ends.
C2_BackupBeforeDestroy ==
    (call.op = "uninstall" \/ (call.op = "install" /\ call.installMethod = "git_clone"))
    => \A i \in DOMAIN steps :
         steps[i].op = "rmtree" =>
           \E j \in 1..(i - 1) :
              /\ steps[j].op = "copytree" /\ steps[j].ok
              /\ steps[j].name \in NewBackups(call.extensionId,
                                    IF call.op = "uninstall" THEN "before_uninstall"
                                    ELSE "before_install")
              /\ ExistedBefore(call.extensionId)
              /\ backups[steps[j].name] = pre.ext[call.extensionId]

\* A git_clone install removed the old directory, the clone failed, no
\* directory is left.
C2_Witness ==
    /\ call.op = "install" /\ call.installMethod = "git_clone"
    /\ Took("rmtree", TRUE) /\ Took("clone_from", FALSE)
    /\ ~ result.success
    /\ ~ ExistsNow(call.extensionId)

\* C3: when the backup copy fails during install or uninstall, the call
\* returns a failure result and the extensions root is as it was.
C3_BackupFailureAborts ==
    (call.op \in {"install", "uninstall"} /\ Took("copytree", FALSE))
    => /\ result.returned /\ ~ result.success
       /\ RootUnchanged
       /\ ~ Took("rmtree", TRUE) /\ ~ Took("rmtree", FALSE)

\* An uninstall of an existing directory whose backup copy failed.
C3_Witness ==
    /\ call.op = "uninstall" /\ ExistedBefore(call.extensionId)
    /\ Took("copytree", FALSE)
    /\ ~ result.success
    /\ extensions[call.extensionId] = pre.ext[call.extensionId]

\* The toggles of C4 that ask for the state the name already has.
AlreadyCurrent == call.enabled = ~ startswith(call.extensionId, DisabledPrefix)

\* Toggling to the already-current state renames nothing and reports success.
C4_NoOp ==
    (call.op = "toggle" /\ AlreadyCurrent)
    => result.success /\ steps = <<>> /\ RootUnchanged

\* The directory of the last toggle was renamed to the other form of its name.
Renamed ==
    LET id == call.extensionId
        new_id == IF call.enabled THEN Unprefixed(id) ELSE Prefixed(id)
    IN /\ ~ ExistsNow(id)
       /\ ExistsNow(new_id)
       /\ extensions[new_id] = pre.ext[id]

\* C4 as stated: every toggle of an existing directory to the other state
\* renames it.
C4_Original ==
    /\ (call.op = "toggle" /\ ~ AlreadyCurrent /\ ExistedBefore(call.extensionId))
       => Renamed
    /\ C4_NoOp

\* C4 amended: a toggle of an existing directory to the other state that
\* reports success has renamed it; one that reports failure renamed nothing.
C4_ToggleRenames ==
    /\ (call.op = "toggle" /\ ~ AlreadyCurrent /\ ExistedBefore(call.extensionId))
       => IF result.success THEN Renamed ELSE RootUnchanged
    /\ C4_NoOp

\* foo was disabled: it is now disabled_foo.
C4_Witness ==
    /\ call.op = "toggle" /\ ~ call.enabled /\ call.extensionId = "foo"
    /\ ExistedBefore("foo")
    /\ result.success
    /\ ExistsNow("disabled_foo") /\ ~ ExistsNow("foo")

\* C5: install with a method other than git_clone and download_zip returns
\* failure and changes neither the extensions root, nor the backup root, nor
\* the temp directory.
C5_Original ==
    (call.op = "install" /\ call.installMethod \notin {"git_clone", "download_zip"})
    => /\ result.returned /\ ~ result.success
       /\ RootUnchanged
       /\ backups = pre.bak
       /\ temp = pre.tmp

\* C6: uninstall of an id with no directory returns failure with the
\* not-found message, creates no backup and leaves the root unchanged.
C6_UninstallNotFound ==
    (call.op = "uninstall" /\ ~ ExistedBefore(call.extensionId))
    => /\ result.returned /\ ~ result.success
       /\ result.message = "Extension not found"
       /\ backups = pre.bak
       /\ RootUnchanged
       /\ steps = <<>>

\* uninstall("foo") was called with no directory foo.
C6_Witness ==
    /\ call.op = "uninstall" /\ call.extensionId = "foo"
    /\ ~ ExistedBefore("foo")
    /\ ~ result.success

\* What C7 says the uninstall leaves.
RoundTrip ==
    LET id == call.extensionId IN
    /\ ~ ExistsNow(id)
    /\ Cardinality(NewBackups(id, "before_uninstall")) = 1
    /\ result.backupId \in NewBackups(id, "before_uninstall")
    /\ backups[result.backupId] = pre.ext[id]

\* C7 as stated: uninstall(id) right after a successful git_clone install of
\* id reports success, leaves no directory and exactly one new
\* before_uninstall backup, whose identifier it returns.
C7_Original ==
    (call.op = "uninstall" /\ cloned = call.extensionId)
    => result.success /\ RoundTrip

\* C7 amended: the same of an uninstall that reports success.
C7_RoundTrip ==
    (call.op = "uninstall" /\ cloned = call.extensionId /\ result.success)
    => RoundTrip

\* install(foo, git_clone) succeeded, then uninstall(foo) succeeded.
C7_Witness ==
    /\ call.op = "uninstall" /\ call.extensionId = "foo" /\ cloned = "foo"
    /\ result.success
    /\ ~ ExistsNow("foo")

\* C8: every call returns a result with a success flag, and a message when
\* it failed; no exception leaves a handler.
C8_Total ==
    call.op # "none"
    => /\ result.returned
       /\ result.success \in BOOLEAN
       /\ (~ result.success => result.message # "")

\* A call one of whose filesystem steps failed with an exception.
C8_Witness ==
    /\ call.op \in {"install", "uninstall", "toggle"}
    /\ \E i \in DOMAIN steps : ~ steps[i].ok /\ steps[i].op \in {"copytree", "rmtree", "rename", "run"}
    /\ result.returned /\ ~ result.success

\* C9: a call that reports success left the requested state: the target
\* exists after install, does not after uninstall, and after toggle the
\* directory exists under the unprefixed name when enabled and under the
\* prefixed name when not.
C9_Original ==
    result.success
    => /\ call.op = "install" => ExistsNow(call.extensionId)
       /\ call.op = "uninstall" => ~ ExistsNow(call.extensionId)
       /\ call.op = "toggle" =>
            IF call.enabled
            THEN ExistsNow(Unprefixed(call.extensionId))
            ELSE ExistsNow(Prefixed(call.extensionId))

\* C10: an install whose clone or download succeeded and that found an
\* install script returns success, whatever the script run did.
C10_Original ==
    (call.op = "install" /\ (Took("run", TRUE) \/ Took("run", FALSE)))
    => result.success


----------------------------------------------------------------------------
(* Properties of scan *)

\* The last call failed at step op on directory d.
Failed(op, d) == \E i \in DOMAIN steps : steps[i] = [op |-> op, name |-> d, ok |-> FALSE]

\* The immediate subdirectories that are valid extensions: not hidden, and
\* holding one of the four markers.
ValidExtensions ==
    IF ~ has_root THEN {}
    ELSE { d \in DOMAIN extensions :
             /\ ~ startswith(d, ".")
             /\ \E f \in {"install.py", "scripts", "__init__.py", "README.md"} :
                  f \in DOMAIN extensions[d] }

Listed == { e.id : e \in result.entries }

\* Every entry is the only one of its directory and has the enabled flag of
\* its name.
EntriesWellFormed ==
    \A e \in result.entries :
        /\ Cardinality({ x \in result.entries : x.id = e.id }) = 1
        /\ e.isEnabled = ~ startswith(e.id, DisabledPrefix)

\* C11 as stated: scan returns exactly one entry for each valid extension
\* directory and none for any other, with the enabled flag of the name; a
\* missing root gives no entry.
C11_Original ==
    call.op = "scan" => Listed = ValidExtensions /\ EntriesWellFormed

\* C11 amended: the same, but for the directories whose inspection failed at
\* os.path.getctime, which are left out, and for a listing of the root that
\* fails, which gives no entry at all.
C11_ScanListsValidExtensions ==
    call.op = "scan"
    => /\ EntriesWellFormed
       /\ Listed = IF Took("listdir", FALSE) THEN {}
                   ELSE { d \in ValidExtensions : ~ Failed("getctime", d) }

\* A scan over foo, bar, the hidden .git and the marker-less empty directory
\* listed foo and bar, both enabled.
C11_Witness ==
    /\ call.op = "scan"
    /\ {"foo", "bar", ".git", "empty"} \subseteq DOMAIN extensions
    /\ Listed = {"foo", "bar"}
    /\ \A e \in result.entries : e.isEnabled

\* C12 as stated: a directory whose inspection fails, at the repository or at
\* the file metadata, is left out, every other valid extension directory is
\* listed, and the scan returns.
C12_Original ==
    (call.op = "scan" /\ Took("listdir", TRUE))
    => /\ result.returned
       /\ \A d \in ValidExtensions :
            d \in Listed <=> ~ (Failed("git", d) \/ Failed("getctime", d))

\* C12 amended: a directory whose inspection fails at the file metadata is
\* left out; one whose repository cannot be read is listed with version
\* "unknown"; every other valid extension directory is listed with its
\* version, and the scan returns.
C12_FailureIsolation ==
    (call.op = "scan" /\ Took("listdir", TRUE))
    => /\ result.returned
       /\ \A d \in ValidExtensions : d \in Listed <=> ~ Failed("getctime", d)
       /\ \A e \in result.entries :
            e.version = IF ".git" \in DOMAIN extensions[e.id] /\ ~ Failed("git", e.id)
                        THEN SubSeq(hexsha(extensions[e.id][".git"]), 1, ShaLen)
                        ELSE "unknown"

\* The inspection of foo failed, and bar is listed all the same.
C12_Witness ==
    /\ call.op = "scan"
    /\ "foo" \in ValidExtensions /\ Failed("getctime", "foo")
    /\ Listed = {"bar"}


----------------------------------------------------------------------------
(* Properties of the backups *)

\* C13: every backup entry that existed before a call exists after it with
\* the same contents: no call deletes or overwrites a backup.
C13_BackupsAdditive ==
    \A b \in DOMAIN pre.bak : b \in DOMAIN backups /\ backups[b] = pre.bak[b]

\* A call added a backup entry beside the ones that were there.
C13_Witness ==
    /\ DOMAIN pre.bak # {}
    /\ DOMAIN backups # DOMAIN pre.bak
    /\ \A b \in DOMAIN pre.bak : backups[b] = pre.bak[b]

\* The last call asked copytree for a backup identifier that was taken.
BackupIdTaken ==
    \E i \in DOMAIN steps : steps[i].op = "copytree" /\ steps[i].name \in DOMAIN pre.bak

\* C19: when install or uninstall asks for a backup whose identifier (id,
\* reason, time cut to the second) is taken, the copy fails, the call returns
\* failure, the backup root and the extensions root are as they were.
C19_BackupIdCollision ==
    (call.op \in {"install", "uninstall"} /\ BackupIdTaken)
    => /\ result.returned /\ ~ result.success
       /\ Took("copytree", FALSE)
       /\ backups = pre.bak
       /\ RootUnchanged

\* A second backup of the same directory for the same reason within the
\* second of the first.
C19_Witness ==
    /\ call.op \in {"install", "uninstall"}
    /\ BackupIdTaken
    /\ ExistedBefore(call.extensionId)
    /\ ~ result.success


----------------------------------------------------------------------------
(* Properties of toggle *)

\* The name the last toggle asks the directory to have.
NewName == IF call.enabled THEN Unprefixed(call.extensionId) ELSE Prefixed(call.extensionId)

\* Nothing but the extensions root can have changed, no directory appeared
\* but under the new name, and the toggled directory has its contents, under
\* the old name or the new.
RenameOnly ==
    /\ backups = pre.bak /\ temp = pre.tmp /\ has_root = pre.root
    /\ DOMAIN extensions \subseteq DOMAIN pre.ext \cup {NewName}
    /\ ExistedBefore(call.extensionId)
       => \/ (ExistsNow(call.extensionId)
              /\ extensions[call.extensionId] = pre.ext[call.extensionId])
          \/ Renamed

\* Directory d is as it was before the last call.
Kept(d) == ExistsNow(d) /\ extensions[d] = pre.ext[d]

Collision ==
    /\ call.op = "toggle" /\ ~ AlreadyCurrent
    /\ ExistedBefore(call.extensionId) /\ ExistedBefore(NewName)

\* The last toggle needs a rename of a directory that did not exist.
MissingSource == call.op = "toggle" /\ ~ AlreadyCurrent /\ ~ ExistedBefore(call.extensionId)

DisabledThenEnabled ==
    /\ toggled_from.id # ""
    /\ call.op = "toggle" /\ call.enabled
    /\ call.extensionId = DisabledPrefix \o toggled_from.id

\* C16 as stated: the two toggles leave the extensions root as it was.
C16_Original ==
    DisabledThenEnabled => extensions = toggled_from.ext

\* C16 amended: they do when the second toggle reports success; when it
\* reports failure it leaves the root as the first toggle left it.
C16_ToggleRoundTrip ==
    DisabledThenEnabled
    => IF result.success THEN extensions = toggled_from.ext ELSE RootUnchanged

\* foo was disabled and enabled again, both renames done.
C16_Witness ==
    /\ DisabledThenEnabled /\ toggled_from.id = "foo"
    /\ Took("rename", TRUE)
    /\ ExistedBefore("disabled_foo") /\ ~ ExistedBefore("foo")
    /\ extensions = toggled_from.ext


----------------------------------------------------------------------------
(* Properties of the download_zip install *)

\* The last call was a download_zip install over an existing target.
ZipOverExisting ==
    /\ call.op = "install" /\ call.installMethod = "download_zip"
    /\ ExistedBefore(call.extensionId)

\* The download or the extraction of the last call failed.
DownloadFailed ==
    Took("get", FALSE) \/ Took("write", FALSE) \/ Took("extractall", FALSE)

\* The target holds every pre-existing file, each with its old or with the
\* archive's contents, and nothing that is in neither.
Merged(new, old) ==
    /\ DOMAIN old \subseteq DOMAIN new
    /\ DOMAIN new \subseteq DOMAIN old \cup DOMAIN TreeZip
    /\ \A f \in DOMAIN new :
         \/ (f \in DOMAIN TreeZip /\ new[f] = TreeZip[f])
         \/ (f \in DOMAIN old /\ new[f] = old[f])

\* C20: a download_zip install over an existing target never removes the
\* target; on success the target holds every file of the archive plus every
\* pre-existing file the archive did not overwrite; after a failed download or
\* extraction the target still exists, possibly partially overwritten, and a
\* before_install backup holds its prior contents.
C20_ZipMerge ==
    ZipOverExisting =>
      LET id == call.extensionId IN
      /\ ~ Took("rmtree", TRUE) /\ ~ Took("rmtree", FALSE)
      /\ result.success =>
           /\ ExistsNow(id)
           /\ Merged(extensions[id], pre.ext[id])
           /\ \A f \in DOMAIN TreeZip : extensions[id][f] = TreeZip[f]
      /\ DownloadFailed =>
           /\ ~ result.success
           /\ ExistsNow(id)
           /\ Merged(extensions[id], pre.ext[id])
           /\ \E b \in NewBackups(id, "before_install") : backups[b] = pre.ext[id]

\* The archive was extracted over foo: README.md is the archive's, user.cfg
\* is still there.
C20_Witness ==
    /\ ZipOverExisting /\ call.extensionId = "foo" /\ result.success
    /\ "user.cfg" \in DOMAIN pre.ext["foo"]
    /\ extensions["foo"]["user.cfg"] = pre.ext["foo"]["user.cfg"]
    /\ extensions["foo"]["README.md"] = TreeZip["README.md"]
    /\ extensions["foo"]["README.md"] # pre.ext["foo"]["README.md"]


----------------------------------------------------------------------------
(* Properties of overlapping calls *)

Done(t) == tasks[t].pc = "done"

\* Task t took the step op, with outcome ok.
TaskTook(t, op, ok) ==
    \E i \in DOMAIN tasks[t].steps :
       tasks[t].steps[i].op = op /\ tasks[t].steps[i].ok = ok

\* An uninstall reported success, and its backupId names no copy of what the
\* directory held when the uninstall checked it.
LostBackup(t) ==
    /\ Done(t) /\ tasks[t].call.op = "uninstall" /\ tasks[t].result.success
    /\ ~ (/\ tasks[t].result.backupId \in DOMAIN backups
          /\ backups[tasks[t].result.backupId] = tasks[t].seen)

\* An uninstall failed midway: the directory it had checked was gone.
Vanished(t) ==
    /\ Done(t) /\ tasks[t].call.op = "uninstall"
    /\ TaskTook(t, "exists", TRUE)
    /\ tasks[t].exc.cls = "FileNotFoundError"

Corrupted(t) == LostBackup(t) \/ Vanished(t)

\* C17: nothing keeps the steps of two calls apart, and a corrupted outcome
\* (an uninstall that reports success without a full backup, or fails midway
\* on a directory it had checked) is reachable, and is reached only by calls
\* whose steps another call's step came between.
C17_CorruptionByInterleaving ==
    \A t \in Tasks : Corrupted(t) => tasks[t].interfered

\* An uninstall of foo and an install of foo overlapped; the uninstall
\* reports success and a backupId under which nothing was stored.
C17_Witness ==
    \E t \in Tasks, u \in Tasks :
       /\ t # u /\ LostBackup(t)
       /\ tasks[t].call.extensionId = "foo"
       /\ tasks[u].call.op = "install" /\ tasks[u].call.extensionId = "foo"
       /\ tasks[t].result.backupId # ""
       /\ tasks[t].result.backupId \notin DOMAIN backups

\* C18: on one event loop a handler, once entered, runs to its return before
\* another takes a step: no two calls are in progress at once, no step comes
\* between the steps of another call, and no call ends corrupted.
C18_NoInterleaving ==
    /\ \A t \in Tasks, u \in Tasks : t # u => ~ (Mid(t) /\ Mid(u))
    /\ \A t \in Tasks : ~ tasks[t].interfered /\ ~ Corrupted(t)

\* An uninstall of foo and a git_clone install of foo both ran on the loop
\* and both succeeded; the uninstall's backup holds what it deleted.
C18_Witness ==
    \E t \in Tasks, u \in Tasks :
       /\ Done(t) /\ Done(u)
       /\ tasks[t].call.op = "uninstall" /\ tasks[t].call.extensionId = "foo"
       /\ tasks[u].call.op = "install" /\ tasks[u].call.extensionId = "foo"
       /\ tasks[t].result.success /\ tasks[u].result.success
       /\ TaskTook(t, "rmtree", TRUE) /\ TaskTook(u, "clone_from", TRUE)
       /\ backups[tasks[t].result.backupId] = tasks[t].seen

====
